---- MODULE Spec2Model ----
(***************************************************************************)
(* Model of the todoList backend: the store of users and tasks (db.py),    *)
(* the Cognito helpers (auth.py) and the two authentication request        *)
(* pipelines (main.py).                                                    *)
(*                                                                         *)
(* Text values are sequences of one-character strings, so that strip()     *)
(* and the truthiness tests of the code act on the characters.  Times are  *)
(* sequences of character codes, so that ORDER BY compares them the way    *)
(* the store compares TEXT.                                                *)
(*                                                                         *)
(* Four specifications share the state and the actions:                    *)
(*   SpecAuth   one worker serving /auth/verify and /auth/exchange;        *)
(*   SpecTasks  one caller of insert_task, fetch_tasks_by_email_and_date   *)
(*              and deactivate_task, over the full set of task inputs;     *)
(*   SpecUsers  concurrent callers of upsert_user, with the clock running; *)
(*   Spec       concurrent callers of all four store functions.            *)
(***************************************************************************)
EXTENDS Integers, Sequences, FiniteSets, TLC

VARIABLES backend, main, lock, users, tasks, seq, now, th, hist

vars == <<backend, main, lock, users, tasks, seq, now, th, hist>>

\* hist is a history variable: for every id insert_task has returned, the
\* arguments of that call and what it returned.

\* ---------------------------------------------------------------- bounds
NumThreads == 2
MaxTasks == 3
MaxClock == 1

Threads == 1..NumThreads

\* ---------------------------------------------------------------- values
\* Python None / SQL NULL, comparable with every text value.
None == <<"None">>

IsSpace(c) == c \in {" ", "\t"}

RECURSIVE LStrip(_)
LStrip(s) == IF s # <<>> /\ IsSpace(Head(s)) THEN LStrip(Tail(s)) ELSE s

RECURSIVE RStrip(_)
RStrip(s) == IF s # <<>> /\ IsSpace(s[Len(s)]) THEN RStrip(SubSeq(s, 1, Len(s) - 1)) ELSE s

\* str.strip()
Strip(s) == RStrip(LStrip(s))

\* Python truthiness of an optional text: None and "" are falsy.
Truthy(s) == s # None /\ s # <<>>

\* x or y
OrElse(x, y) == IF Truthy(x) THEN x ELSE y

\* Comparison of two TEXT values by the store (bytewise, a proper prefix first).
RECURSIVE TextLess(_, _)
TextLess(a, b) ==
    IF a = <<>> THEN b # <<>>
    ELSE IF b = <<>> THEN FALSE
    ELSE IF Head(a) # Head(b) THEN Head(a) < Head(b)
    ELSE TextLess(Tail(a), Tail(b))

\* ---------------------------------------------------------------- inputs
T0800 == <<48, 56, 58, 48, 48>>              \* "08:00"
T0930 == <<48, 57, 58, 51, 48>>              \* "09:30"
T093015 == <<48, 57, 58, 51, 48, 58, 49, 53>>  \* "09:30:15"

D1 == "2024-01-05"
D2 == "2024-01-06"

TaskInputs ==
    { [description |-> "Buy milk", date |-> D1, time |-> T0930, user_email |-> <<"a">>],
      [description |-> "Walk dog", date |-> D1, time |-> T0800, user_email |-> <<" ", "a", "\t">>],
      [description |-> "Pay rent", date |-> D2, time |-> T093015, user_email |-> <<"a">>],
      [description |-> "Read", date |-> D1, time |-> T093015, user_email |-> <<"b">>],
      [description |-> "Nobody", date |-> D1, time |-> T0800, user_email |-> <<" ">>],
      [description |-> "Nobody", date |-> D1, time |-> T0800, user_email |-> None] }

FetchInputs ==
    { [user_email |-> <<"a">>, task_date |-> D1],
      [user_email |-> <<"\t", "a", " ">>, task_date |-> D1],
      [user_email |-> <<"a">>, task_date |-> D2],
      [user_email |-> <<"b">>, task_date |-> D1],
      [user_email |-> <<" ">>, task_date |-> D1] }

TaskIds == 0..(MaxTasks + 1)

\* ---------------------------------------------------------------- threads
\* pc: where the thread is; req: the request it serves; fn: the store function
\* it is in; a: that function's locals; r: its outcome; x: the request's locals.
Idle == [pc |-> "idle", req |-> "none", fn |-> "none", a |-> <<>>, r |-> <<>>, x |-> <<>>]

\* The threads that take calls in the sequential specifications.
Callers == {1}

\* _DB_LOCK exists only for the sqlite backend.
HasLock == backend = "sqlite"

Init ==
    /\ backend \in {"sqlite", "postgresql"}
    /\ main = "import"
    /\ lock = 0
    /\ users = {}
    /\ tasks = {}
    /\ seq = 0
    /\ hist = <<>>
    /\ now = 0
    /\ th = [t \in Threads |-> Idle]

\* ---------------------------------------------------------------- startup
\* main.py:39 runs init_db() while the module is imported, before the app
\* exists: ENGINE.begin() is entered without _locked().
InitDbBegin ==
    /\ main = "import"
    /\ main' = "init_db"
    /\ UNCHANGED <<backend, lock, users, tasks, seq, hist, now, th>>

\* CREATE TABLE IF NOT EXISTS leaves the rows alone; the app starts serving.
InitDbEnd ==
    /\ main = "init_db"
    /\ main' = "serving"
    /\ UNCHANGED <<backend, lock, users, tasks, seq, hist, now, th>>

\* ---------------------------------------------------------------- _locked
\* The block is entered without waiting for the guard to be free.
AcquireWithoutWaiting(t) ==
    /\ th[t].pc = "acquire"
    /\ lock' = IF HasLock THEN t ELSE lock
    /\ th' = [th EXCEPT ![t].pc = "exec"]
    /\ UNCHANGED <<backend, main, users, tasks, seq, hist, now>>

\* with _locked(): with ENGINE.begin()/connect() as connection:
Acquire(t) ==
    /\ th[t].pc = "acquire"
    /\ IF HasLock THEN lock = 0 /\ lock' = t ELSE lock' = lock
    /\ th' = [th EXCEPT ![t].pc = "exec"]
    /\ UNCHANGED <<backend, main, users, tasks, seq, hist, now>>

\* The guard is given back only when the block is left normally.
ReleaseUnlessRaised(t) ==
    /\ th[t].pc = "release"
    /\ lock' = IF HasLock /\ th[t].r.ok THEN 0 ELSE lock
    /\ th' = [th EXCEPT ![t].pc = IF th[t].req = "none" THEN "return" ELSE "handler"]
    /\ UNCHANGED <<backend, main, users, tasks, seq, hist, now>>

\* Leaving the with-block, normally or with the exception in flight.
Release(t) ==
    /\ th[t].pc = "release"
    /\ lock' = IF HasLock THEN 0 ELSE lock
    /\ th' = [th EXCEPT ![t].pc = IF th[t].req = "none" THEN "return" ELSE "handler"]
    /\ UNCHANGED <<backend, main, users, tasks, seq, hist, now>>

\* The function returns (or raises) to its caller.
Return(t) ==
    /\ th[t].pc = "return"
    /\ th[t].req = "none"
    /\ th' = [th EXCEPT ![t] = Idle]
    /\ UNCHANGED <<backend, main, lock, users, tasks, seq, hist, now>>

\* ---------------------------------------------------------------- insert_task
\* The calls of insert_task that have not yet drawn their id.
PendingInserts == {t \in Threads : th[t].fn = "insert_task" /\ th[t].pc \in {"acquire", "exec"}}

\* At most MaxTasks ids are ever drawn.
CallInsertTask(t, inputs) ==
    /\ main = "serving"
    /\ th[t].pc = "idle"
    /\ seq + Cardinality(PendingInserts) < MaxTasks
    /\ \E i \in inputs :
         th' = [th EXCEPT ![t] =
                  [pc |-> "acquire", req |-> "none", fn |-> "insert_task",
                   a |-> [args |-> i, description |-> i.description, date |-> i.date,
                          time |-> i.time,
                          normalized_email |-> Strip(OrElse(i.user_email, <<>>))],
                   r |-> <<>>, x |-> <<>>]]
    /\ UNCHANGED <<backend, main, lock, users, tasks, seq, hist, now>>

\* The email is bound as it was passed, not trimmed.
InsertedRowUntrimmed(id, a) ==
    [id |-> id, description |-> a.description, date |-> a.date, time |-> a.time,
     user_email |-> OrElse(a.args.user_email, <<>>), isactive |-> 1]

InsertedRow(id, a) ==
    [id |-> id, description |-> a.description, date |-> a.date, time |-> a.time,
     user_email |-> a.normalized_email, isactive |-> 1]

ExecInsertTask(t) ==
    /\ th[t].pc = "exec"
    /\ th[t].fn = "insert_task"
    /\ LET task_id == seq + 1
           ret == <<task_id, OrElse(th[t].a.normalized_email, None)>>
       IN
         /\ tasks' = tasks \cup {InsertedRow(task_id, th[t].a)}
         /\ seq' = task_id
         /\ th' = [th EXCEPT ![t].pc = "release", ![t].r = [ok |-> TRUE, val |-> ret]]
         /\ hist' = [id \in (DOMAIN hist) \cup {task_id} |->
                       IF id = task_id THEN [args |-> th[t].a.args, ret |-> ret] ELSE hist[id]]
    /\ UNCHANGED <<backend, main, lock, users, now>>

\* ---------------------------------------------------------------- fetch_tasks_by_email_and_date
CallFetchTasks(t, inputs) ==
    /\ main = "serving"
    /\ th[t].pc = "idle"
    /\ \E i \in inputs :
         LET normalized_email == Strip(i.user_email) IN
         th' = [th EXCEPT ![t] =
                  IF ~Truthy(normalized_email)
                  THEN [pc |-> "return", req |-> "none", fn |-> "fetch_tasks",
                        a |-> [args |-> i, normalized_email |-> normalized_email,
                               task_date |-> i.task_date],
                        r |-> [ok |-> TRUE, val |-> <<>>], x |-> <<>>]
                  ELSE [pc |-> "acquire", req |-> "none", fn |-> "fetch_tasks",
                        a |-> [args |-> i, normalized_email |-> normalized_email,
                               task_date |-> i.task_date],
                        r |-> <<>>, x |-> <<>>]]
    /\ UNCHANGED <<backend, main, lock, users, tasks, seq, hist, now>>

\* ORDER BY id
RowBeforeById(r1, r2) == r1.id < r2.id

\* ORDER BY time, id
RowBefore(r1, r2) ==
    \/ TextLess(r1.time, r2.time)
    \/ r1.time = r2.time /\ r1.id < r2.id

RECURSIVE OrderBy(_)
OrderBy(S) ==
    IF S = {} THEN <<>>
    ELSE LET m == CHOOSE r \in S : \A o \in S \ {r} : RowBefore(r, o)
         IN <<m>> \o OrderBy(S \ {m})

\* WHERE user_email = :user_email AND date = :task_date AND isactive = 1
Selected(rows, user_email, task_date) ==
    {r \in rows : r.user_email = user_email /\ r.date = task_date /\ r.isactive = 1}

\* SELECT id, description, date, time, user_email
Project(r) ==
    [id |-> r.id, description |-> r.description, date |-> r.date, time |-> r.time,
     user_email |-> r.user_email]

FetchResult(rows, user_email, task_date) ==
    LET s == OrderBy(Selected(rows, user_email, task_date))
    IN [k \in 1..Len(s) |-> Project(s[k])]

ExecFetchTasks(t) ==
    /\ th[t].pc = "exec"
    /\ th[t].fn = "fetch_tasks"
    /\ th' = [th EXCEPT ![t].pc = "release",
                        ![t].r = [ok |-> TRUE,
                                  val |-> FetchResult(tasks, th[t].a.normalized_email,
                                                      th[t].a.task_date)]]
    /\ UNCHANGED <<backend, main, lock, users, tasks, seq, hist, now>>

\* ---------------------------------------------------------------- deactivate_task
CallDeactivateTask(t, inputs) ==
    /\ main = "serving"
    /\ th[t].pc = "idle"
    /\ \E id \in inputs :
         th' = [th EXCEPT ![t] = [pc |-> "acquire", req |-> "none", fn |-> "deactivate_task",
                                  a |-> [task_id |-> id], r |-> <<>>, x |-> <<>>]]
    /\ UNCHANGED <<backend, main, lock, users, tasks, seq, hist, now>>

\* WHERE id = :task_id
UpdatedAnyState(rows, task_id) == {r \in rows : r.id = task_id}

\* WHERE id = :task_id AND isactive = 1
Updated(rows, task_id) == {r \in rows : r.id = task_id /\ r.isactive = 1}

\* DELETE FROM tasks WHERE ...
DeactivatedByDelete(rows, task_id) == rows \ Updated(rows, task_id)

\* UPDATE tasks SET isactive = 0 WHERE ...
Deactivated(rows, task_id) ==
    (rows \ Updated(rows, task_id))
      \cup {[r EXCEPT !.isactive = 0] : r \in Updated(rows, task_id)}

ExecDeactivateTask(t) ==
    /\ th[t].pc = "exec"
    /\ th[t].fn = "deactivate_task"
    /\ tasks' = Deactivated(tasks, th[t].a.task_id)
    /\ th' = [th EXCEPT ![t].pc = "release",
                        ![t].r = [ok |-> TRUE,
                                  val |-> Cardinality(Updated(tasks, th[t].a.task_id)) > 0]]
    /\ UNCHANGED <<backend, main, lock, users, seq, hist, now>>

\* ---------------------------------------------------------------- failure
\* The statement raises SQLAlchemyError: the transaction is rolled back and
\* the function re-raises it as DatabaseError.  A BIGSERIAL value drawn by a
\* failed INSERT is not given back.
ExecFails(t) ==
    /\ th[t].pc = "exec"
    /\ th' = [th EXCEPT ![t].pc = "release", ![t].r = [ok |-> FALSE, val |-> "DatabaseError"]]
    /\ \/ seq' = seq
       \/ /\ backend = "postgresql"
          /\ th[t].fn = "insert_task"
          /\ seq' = seq + 1
    /\ UNCHANGED <<backend, main, lock, users, tasks, now, hist>>

\* ---------------------------------------------------------------- dictionaries
\* dict.get(k)
Get(d, k) == IF k \in DOMAIN d THEN d[k] ELSE None

\* dict(d).update(u)
Update(d, u) == [k \in (DOMAIN d) \cup (DOMAIN u) |-> IF k \in DOMAIN u THEN u[k] ELSE d[k]]

\* ---------------------------------------------------------------- settings
Uri1 == <<"u", "1">>
Uri2 == <<"u", "2">>
UriX == <<"u", "x">>

\* Settings.cognito_redirect_uris, the first being the default.
cognito_redirect_uris == <<Uri1, Uri2>>

cognito_redirect_uri == cognito_redirect_uris[1]

Issuer == <<"i", "s", "s">>
ClientId == <<"c", "i", "d">>

\* ---------------------------------------------------------------- tokens
S1 == <<"s", "1">>
S2 == <<"s", "2">>
E1 == <<"e", "1">>
E2 == <<"e", "2">>
E3 == <<"e", "3">>
N1 == <<"n", "1">>
N2 == <<"n", "2">>
UseId == <<"i", "d">>
UseAccess == <<"a", "c", "c", "e", "s", "s">>
AccessTok == <<"a", "t">>

\* An encoded JWT: whether the JWKS has its key, whether its RS256 signature
\* verifies, and the claims it carries.
Jwt(kid_known, sig_ok, claims) == <<"jwt", kid_known, sig_ok, claims>>

Std == [iss |-> Issuer, aud |-> ClientId, token_use |-> UseId]

TokA == Jwt(TRUE, TRUE, Update(Std, [sub |-> S1, email |-> E1, name |-> N1]))
TokB == Jwt(TRUE, TRUE, Update(Std, [sub |-> S1, email |-> E2]))
TokC == Jwt(TRUE, TRUE, Update(Std, [sub |-> S2, email |-> E1, name |-> N1]))
TokNoSub == Jwt(TRUE, TRUE, Update(Std, [email |-> E1]))
TokEmptySub == Jwt(TRUE, TRUE, Update(Std, [sub |-> <<>>, email |-> E1]))
TokAccess == Jwt(TRUE, TRUE, Update(Std, [sub |-> S1, token_use |-> UseAccess]))
TokWrongAud == Jwt(TRUE, TRUE, Update(Std, [sub |-> S1, aud |-> UriX]))
TokBadSig == Jwt(TRUE, FALSE, Update(Std, [sub |-> S1, email |-> E1]))
TokNoKey == Jwt(FALSE, TRUE, Update(Std, [sub |-> S1, email |-> E1]))

IdTokens == {TokA, TokB, TokC, TokNoSub, TokEmptySub, TokAccess, TokWrongAud, TokBadSig, TokNoKey}

Ok(v) == [ok |-> TRUE, val |-> v]
Raise(e) == [ok |-> FALSE, val |-> e]

\* jwt.decode(..., algorithms=["RS256"], issuer=..., audience=...)
JwtDecodes(tok) ==
    /\ tok[3]
    /\ Get(tok[4], "iss") = Issuer
    /\ Get(tok[4], "aud") = ClientId

validate_id_token(tok) ==
    IF ~tok[2] THEN Raise("TokenVerificationError")
    ELSE IF ~JwtDecodes(tok) THEN Raise("TokenVerificationError")
    ELSE IF Get(tok[4], "token_use") # UseId THEN Raise("TokenVerificationError")
    ELSE Ok(tok[4])

\* ---------------------------------------------------------------- Cognito endpoints
\* What an endpoint does with a request: whether it is reached, whether the
\* status is a success, whether the body is JSON, and the JSON document.
Resp(reachable, status_ok, is_json, body) ==
    [reachable |-> reachable, status_ok |-> status_ok, is_json |-> is_json, body |-> body]

FailedResponses ==
    { Resp(FALSE, FALSE, FALSE, <<>>),
      Resp(TRUE, FALSE, TRUE, <<>>),
      Resp(TRUE, TRUE, FALSE, <<>>) }

TokenBodies ==
    { [access_token |-> AccessTok],
      [id_token |-> <<>>, access_token |-> AccessTok],
      [id_token |-> TokA],
      [id_token |-> TokA, access_token |-> <<>>],
      [id_token |-> TokA, access_token |-> AccessTok],
      [id_token |-> TokB, access_token |-> AccessTok],
      [id_token |-> TokNoSub, access_token |-> AccessTok],
      [id_token |-> TokBadSig, access_token |-> AccessTok] }

\* A JSON body that is not an object: null.
JsonNull == [json |-> "null"]

TokenResponses ==
    FailedResponses \cup {Resp(TRUE, TRUE, TRUE, b) : b \in TokenBodies \cup {JsonNull}}

UserinfoBodies ==
    { [email |-> E3, name |-> N2],
      [sub |-> S1, email |-> E3],
      [sub |-> S2, email |-> E3] }

UserinfoResponses == FailedResponses \cup {Resp(TRUE, TRUE, TRUE, b) : b \in UserinfoBodies}

RedirectInputs == {None, <<>>, Uri1, Uri2, UriX}

Range(f) == {f[k] : k \in DOMAIN f}

\* exchange_code_for_tokens, before the request is sent.
RedirectTarget(redirect_uri) == OrElse(redirect_uri, cognito_redirect_uri)

\* The allow-list test made on the configured default instead of the target.
RedirectAllowedChecksDefault(redirect_uri) == cognito_redirect_uri \in Range(cognito_redirect_uris)

RedirectAllowed(redirect_uri) == RedirectTarget(redirect_uri) \in Range(cognito_redirect_uris)

\* _raise_for_status raises TokenExchangeError, whoever calls it.
RaiseForStatus(resp) == IF resp.status_ok THEN Ok(resp) ELSE Raise("TokenExchangeError")

\* exchange_code_for_tokens, from the POST on.  '"id_token" not in payload' is
\* a membership test on whatever response.json() returned: on None it raises
\* TypeError.
TokensOf(resp) ==
    IF ~resp.reachable THEN Raise("TokenExchangeError")
    ELSE IF ~RaiseForStatus(resp).ok THEN RaiseForStatus(resp)
    ELSE IF ~resp.is_json THEN Raise("TokenExchangeError")
    ELSE IF resp.body = JsonNull THEN Raise("TypeError")
    ELSE IF "id_token" \notin DOMAIN resp.body THEN Raise("TokenExchangeError")
    ELSE Ok(resp.body)

fetch_userinfo(resp) ==
    IF ~resp.reachable THEN Raise("UserInfoError")
    ELSE IF ~RaiseForStatus(resp).ok THEN RaiseForStatus(resp)
    ELSE IF ~resp.is_json THEN Raise("UserInfoError")
    ELSE Ok(resp.body)

\* ---------------------------------------------------------------- requests
\* The request's locals: the steps it has taken, the redirect URI it came
\* with, what the token endpoint answered, the token bundle, the claims to
\* persist, what the userinfo endpoint answered, and the status it is answered
\* with.
Ctx(redirect_uri, id_token) ==
    [log |-> <<>>, redirect_uri |-> redirect_uri, id_token |-> id_token, response |-> None,
     tokens |-> None, payload |-> None, userinfo |-> None, status |-> 0]

\* POST /auth/verify -> _process_id_token(body.idToken)
CallVerify(t) ==
    /\ main = "serving"
    /\ th[t].pc = "idle"
    /\ \E tok \in IdTokens :
         th' = [th EXCEPT ![t] = [pc |-> "validate", req |-> "verify", fn |-> "none",
                                  a |-> <<>>, r |-> <<>>, x |-> Ctx(None, tok)]]
    /\ UNCHANGED <<backend, main, lock, users, tasks, seq, hist, now>>

\* POST /auth/exchange -> _exchange_code(body.code, body.redirectUri)
CallExchange(t) ==
    /\ main = "serving"
    /\ th[t].pc = "idle"
    /\ \E u \in RedirectInputs :
         th' = [th EXCEPT ![t] = [pc |-> "exchange", req |-> "exchange", fn |-> "none",
                                  a |-> <<>>, r |-> <<>>, x |-> Ctx(u, None)]]
    /\ UNCHANGED <<backend, main, lock, users, tasks, seq, hist, now>>

\* An exception leaves the pipeline for the handler's except clauses.
Raised(s, e) == [s EXCEPT !.pc = "handler", !.r = Raise(e)]

\* exchange_code_for_tokens: the redirect URI is not in the allow-list.
ExchangeRejected(t) ==
    /\ th[t].pc = "exchange"
    /\ ~RedirectAllowed(th[t].x.redirect_uri)
    /\ th' = [th EXCEPT ![t] = Raised(th[t], "TokenExchangeError")]
    /\ UNCHANGED <<backend, main, lock, users, tasks, seq, hist, now>>

\* exchange_code_for_tokens: the POST to the token endpoint and its outcome,
\* then _exchange_code's own test of the id_token.
ExchangePost(t) ==
    /\ th[t].pc = "exchange"
    /\ RedirectAllowed(th[t].x.redirect_uri)
    /\ \E resp \in TokenResponses :
         LET tokens == TokensOf(resp)
             posted == [th[t] EXCEPT !.x.log = Append(@, "post"), !.x.response = resp]
         IN th' = [th EXCEPT ![t] =
                     IF ~tokens.ok THEN Raised(posted, tokens.val)
                     ELSE IF ~Truthy(Get(tokens.val, "id_token"))
                          THEN Raised(posted, "TokenExchangeError")
                     ELSE [posted EXCEPT !.pc = "validate", !.x.tokens = tokens.val,
                                         !.x.log = Append(@, "exchanged"),
                                         !.x.id_token = tokens.val["id_token"]]]
    /\ UNCHANGED <<backend, main, lock, users, tasks, seq, hist, now>>

\* The claims of the token are used whether or not it verified.
ValidateIgnoringFailure(t) ==
    /\ th[t].pc = "validate"
    /\ LET res == validate_id_token(th[t].x.id_token)
           tried == [th[t] EXCEPT !.x.log = Append(@, "validate")]
       IN th' = [th EXCEPT ![t] =
                   [tried EXCEPT
                      !.pc = IF th[t].req = "exchange"
                                /\ Truthy(Get(th[t].x.tokens, "access_token"))
                             THEN "userinfo" ELSE "upsert_user",
                      !.x.log = IF res.ok THEN Append(@, "verified") ELSE @,
                      !.x.payload = th[t].x.id_token[4]]]
    /\ UNCHANGED <<backend, main, lock, users, tasks, seq, hist, now>>

\* payload = validate_id_token(id_token); _process_id_token goes on to
\* upsert_user, _exchange_code to the userinfo fetch when there is an access token.
Validate(t) ==
    /\ th[t].pc = "validate"
    /\ LET res == validate_id_token(th[t].x.id_token)
           tried == [th[t] EXCEPT !.x.log = Append(@, "validate")]
       IN th' = [th EXCEPT ![t] =
                   IF ~res.ok THEN Raised(tried, res.val)
                   ELSE [tried EXCEPT
                           !.pc = IF th[t].req = "exchange"
                                     /\ Truthy(Get(th[t].x.tokens, "access_token"))
                                  THEN "userinfo" ELSE "upsert_user",
                           !.x.log = Append(@, "verified"),
                           !.x.payload = res.val]]
    /\ UNCHANGED <<backend, main, lock, users, tasks, seq, hist, now>>

\* try: userinfo = fetch_userinfo(access_token)
\* except UserInfoError: log   else: merged_payload.update(userinfo)
FetchUserinfo(t) ==
    /\ th[t].pc = "userinfo"
    /\ \E resp \in UserinfoResponses :
         LET res == fetch_userinfo(resp)
             got == [th[t] EXCEPT !.x.log = Append(@, "userinfo"), !.x.userinfo = resp]
         IN th' = [th EXCEPT ![t] =
                     IF res.ok
                     THEN [got EXCEPT !.pc = "upsert_user",
                                      !.x.payload = Update(@, res.val)]
                     ELSE IF res.val = "UserInfoError"
                          THEN [got EXCEPT !.pc = "upsert_user"]
                     ELSE Raised(got, res.val)]
    /\ UNCHANGED <<backend, main, lock, users, tasks, seq, hist, now>>

\* ---------------------------------------------------------------- upsert_user
UserOf(payload) ==
    [sub |-> Get(payload, "sub"), email |-> Get(payload, "email"), name |-> Get(payload, "name"),
     given_name |-> Get(payload, "given_name"), family_name |-> Get(payload, "family_name"),
     picture |-> Get(payload, "picture")]

\* upsert_user without its test of the subject: every payload goes to the store.
EnterUpsertUserUnchecked(s, payload) ==
    [s EXCEPT !.pc = "acquire", !.fn = "upsert_user", !.a = [payload |-> payload, user |-> UserOf(payload)]]

\* The first lines of upsert_user, before any storage access.
EnterUpsertUser(s, payload) ==
    IF ~Truthy(Get(payload, "sub"))
    THEN [s EXCEPT !.pc = IF s.req = "none" THEN "return" ELSE "handler",
                   !.fn = "upsert_user", !.r = Raise("ValueError")]
    ELSE [s EXCEPT !.pc = "acquire", !.fn = "upsert_user", !.a = [payload |-> payload, user |-> UserOf(payload)]]

\* user = upsert_user(payload) at the end of both pipelines.
UpsertUser(t) ==
    /\ th[t].pc = "upsert_user"
    /\ th' = [th EXCEPT ![t] =
                EnterUpsertUser([th[t] EXCEPT !.x.log = Append(@, "upsert")], th[t].x.payload)]
    /\ UNCHANGED <<backend, main, lock, users, tasks, seq, hist, now>>

\* INSERT ... VALUES (..., CURRENT_TIMESTAMP, CURRENT_TIMESTAMP)
NewUserRow(user, ts) ==
    [sub |-> user.sub, email |-> user.email, name |-> user.name, given_name |-> user.given_name,
     family_name |-> user.family_name, picture |-> user.picture,
     created_at |-> ts, updated_at |-> ts]

\* INSERT OR REPLACE: the conflicting row is replaced by a fresh one.
ConflictReplace(row, user, ts) ==
    [sub |-> user.sub, email |-> user.email, name |-> user.name, given_name |-> user.given_name,
     family_name |-> user.family_name, picture |-> user.picture,
     created_at |-> ts, updated_at |-> ts]

\* ON CONFLICT(sub) DO UPDATE SET email=excluded.email, ..., updated_at=CURRENT_TIMESTAMP
ConflictUpdate(row, user, ts) ==
    [row EXCEPT !.email = user.email, !.name = user.name, !.given_name = user.given_name,
                !.family_name = user.family_name, !.picture = user.picture,
                !.updated_at = ts]

Upserted(rows, user, ts) ==
    IF \E row \in rows : row.sub = user.sub
    THEN {IF row.sub = user.sub THEN ConflictUpdate(row, user, ts) ELSE row : row \in rows}
    ELSE rows \cup {NewUserRow(user, ts)}

ExecUpsertUser(t) ==
    /\ th[t].pc = "exec"
    /\ th[t].fn = "upsert_user"
    /\ users' = Upserted(users, th[t].a.user, now)
    /\ th' = [th EXCEPT ![t] =
                [th[t] EXCEPT !.pc = "release", !.r = Ok(th[t].a.user),
                              !.x = IF th[t].req = "none" THEN @
                                    ELSE [@ EXCEPT !.log = Append(@, "write")]]]
    /\ UNCHANGED <<backend, main, lock, tasks, seq, hist, now>>

\* ---------------------------------------------------------------- responses
\* The except clauses of verify_token and exchange_code, in their order.
StatusOf(req, r) ==
    IF r.ok THEN 200
    ELSE IF req = "exchange" /\ r.val = "TokenExchangeError" THEN 400
    ELSE IF r.val = "TokenVerificationError" THEN 401
    ELSE IF r.val = "ValueError" THEN 400
    ELSE 500

Respond(t) ==
    /\ th[t].pc = "handler"
    /\ th' = [th EXCEPT ![t].pc = "responded", ![t].x.status = StatusOf(th[t].req, th[t].r)]
    /\ UNCHANGED <<backend, main, lock, users, tasks, seq, hist, now>>

\* The response is sent; the worker thread is free again.
Finish(t) ==
    /\ th[t].pc = "responded"
    /\ th' = [th EXCEPT ![t] = Idle]
    /\ UNCHANGED <<backend, main, lock, users, tasks, seq, hist, now>>

NextAuth ==
    \/ InitDbBegin
    \/ InitDbEnd
    \/ \E t \in Callers :
         \/ CallVerify(t)
         \/ CallExchange(t)
         \/ ExchangeRejected(t)
         \/ ExchangePost(t)
         \/ Validate(t)
         \/ FetchUserinfo(t)
         \/ UpsertUser(t)
         \/ Acquire(t)
         \/ ExecUpsertUser(t)
         \/ ExecFails(t)
         \/ Release(t)
         \/ Respond(t)
         \/ Finish(t)

SpecAuth == Init /\ [][NextAuth]_vars

NextTasks ==
    \/ InitDbBegin
    \/ InitDbEnd
    \/ \E t \in Callers :
         \/ CallInsertTask(t, TaskInputs)
         \/ CallFetchTasks(t, FetchInputs)
         \/ CallDeactivateTask(t, TaskIds)
         \/ Acquire(t)
         \/ ExecInsertTask(t)
         \/ ExecFetchTasks(t)
         \/ ExecDeactivateTask(t)
         \/ ExecFails(t)
         \/ Release(t)
         \/ Return(t)

SpecTasks == Init /\ [][NextTasks]_vars

\* ---------------------------------------------------------------- concurrent callers
\* CURRENT_TIMESTAMP advances between statements.
Tick ==
    /\ now < MaxClock
    /\ now' = now + 1
    /\ UNCHANGED <<backend, main, lock, users, tasks, seq, hist, th>>

Payloads == {TokA[4], TokB[4], TokC[4], TokNoSub[4]}

\* upsert_user(payload) called on its own.
CallUpsertUser(t, inputs) ==
    /\ main = "serving"
    /\ th[t].pc = "idle"
    /\ \E payload \in inputs :
         th' = [th EXCEPT ![t] = EnterUpsertUser(Idle, payload)]
    /\ UNCHANGED <<backend, main, lock, users, tasks, seq, hist, now>>

\* Concurrent callers of upsert_user alone.
NextUsers ==
    \/ InitDbBegin
    \/ InitDbEnd
    \/ Tick
    \/ \E t \in Threads :
         \/ CallUpsertUser(t, Payloads)
         \/ Acquire(t)
         \/ ExecUpsertUser(t)
         \/ ExecFails(t)
         \/ Release(t)
         \/ Return(t)

SpecUsers == Init /\ [][NextUsers]_vars

\* Concurrent callers of the four store functions, one input of each kind.
StorePayloads == {TokA[4]}

StoreTaskInputs == {i \in TaskInputs : i.description = "Buy milk"}

StoreFetchInputs == {i \in FetchInputs : i.user_email = <<"a">> /\ i.task_date = D1}

StoreTaskIds == {1}

Next ==
    \/ InitDbBegin
    \/ InitDbEnd
    \/ \E t \in Threads :
         \/ CallUpsertUser(t, StorePayloads)
         \/ CallInsertTask(t, StoreTaskInputs)
         \/ CallFetchTasks(t, StoreFetchInputs)
         \/ CallDeactivateTask(t, StoreTaskIds)
         \/ Acquire(t)
         \/ ExecUpsertUser(t)
         \/ ExecInsertTask(t)
         \/ ExecFetchTasks(t)
         \/ ExecDeactivateTask(t)
         \/ ExecFails(t)
         \/ Release(t)
         \/ Return(t)

Spec == Init /\ [][Next]_vars

\* ---------------------------------------------------------------- scheduling
\* The statement a thread is executing ends, with its result or with an error.
StatementEnds(t) ==
    \/ ExecUpsertUser(t)
    \/ ExecInsertTask(t)
    \/ ExecFetchTasks(t)
    \/ ExecDeactivateTask(t)
    \/ ExecFails(t)

\* Every thread that can run does run: a statement ends, a with-block is left,
\* a function returns, start-up completes; and a thread blocked in
\* _DB_LOCK.acquire() gets the guard if it is free again and again
\* (threading.Lock hands the guard to no waiter in particular, so this is the
\* scheduler's fairness, not the lock's).
Fairness ==
    /\ WF_vars(InitDbBegin)
    /\ WF_vars(InitDbEnd)
    /\ \A t \in Threads :
         /\ SF_vars(Acquire(t))
         /\ WF_vars(StatementEnds(t))
         /\ WF_vars(Release(t))
         /\ WF_vars(Return(t))

\* The backend for which _DB_LOCK is a Lock; on the others _locked() yields
\* under nullcontext() and no thread ever waits.
InitSqlite == Init /\ backend = "sqlite"

GuardFetchInputs == {i \in FetchInputs : i.user_email = <<"a">> /\ i.task_date = D2}

\* Concurrent callers of the four store functions contending for the guard.
NextGuard ==
    \/ InitDbBegin
    \/ InitDbEnd
    \/ \E t \in Threads :
         \/ CallUpsertUser(t, StorePayloads)
         \/ CallInsertTask(t, StoreTaskInputs)
         \/ CallFetchTasks(t, GuardFetchInputs)
         \/ CallDeactivateTask(t, StoreTaskIds)
         \/ Acquire(t)
         \/ ExecUpsertUser(t)
         \/ ExecInsertTask(t)
         \/ ExecFetchTasks(t)
         \/ ExecDeactivateTask(t)
         \/ ExecFails(t)
         \/ Release(t)
         \/ Return(t)

SpecGuard == InitSqlite /\ [][NextGuard]_vars /\ Fairness

\* ================================================================ claims
InRequest(t, req) == th[t].req = req

Answered(t) == th[t].pc \in {"handler", "responded"}

Logged(t, step) == step \in Range(th[t].x.log)

\* C1: in the exchange flow every failure of fetch_userinfo (endpoint
\* unreachable, non-success status, non-JSON body) is swallowed: the flow
\* goes on to upsert the user from the ID-token claims alone and the failure
\* never becomes the request's error response.
C1_UserinfoFailureSwallowed ==
    \A t \in Threads :
        (/\ InRequest(t, "exchange")
         /\ Logged(t, "userinfo")
         /\ th[t].x.userinfo \in FailedResponses)
        => /\ th[t].pc = "upsert_user" \/ Logged(t, "upsert")
           /\ th[t].x.payload = th[t].x.id_token[4]

\* The effective redirect URI as C2 words it: the explicit argument, or the
\* first configured URI when the argument is omitted.
StatedTarget(redirect_uri) ==
    IF redirect_uri = None THEN cognito_redirect_uris[1] ELSE redirect_uri

\* The request failed in exchange_code_for_tokens before anything was sent:
\* TokenExchangeError, and no POST, verification, userinfo fetch or upsert.
RejectedUnsent(t) ==
    /\ Answered(t)
    /\ ~th[t].r.ok
    /\ th[t].r.val = "TokenExchangeError"
    /\ th[t].x.log = <<>>

\* C2 as stated: an exchange whose effective redirect URI (the argument, or
\* the first configured URI when the argument is omitted) is not in the
\* allow-list fails with TokenExchangeError and nothing is sent.
C2_AsStated ==
    \A t \in Threads :
        (/\ InRequest(t, "exchange")
         /\ th[t].pc # "exchange"
         /\ StatedTarget(th[t].x.redirect_uri) \notin Range(cognito_redirect_uris))
        => RejectedUnsent(t)

\* C2 (amended): an exchange whose effective redirect URI (the argument, or
\* the first configured URI when the argument is omitted or empty) is not in
\* the allow-list fails with TokenExchangeError and no network call is made:
\* no POST, no token verification, no userinfo fetch, no user upsert.
C2_RedirectNotAllowedSendsNothing ==
    \A t \in Threads :
        (/\ InRequest(t, "exchange")
         /\ th[t].pc # "exchange"
         /\ OrElse(th[t].x.redirect_uri, cognito_redirect_uris[1]) \notin Range(cognito_redirect_uris))
        => RejectedUnsent(t)

C2_Witness ==
    \E t \in Threads :
        /\ InRequest(t, "exchange")
        /\ th[t].pc = "responded"
        /\ th[t].x.redirect_uri = UriX
        /\ th[t].x.status = 400
        /\ th[t].x.log = <<>>
        /\ users = {}

\* The threads whose upsert statement commits in this step.
CommitsUpsert(t) ==
    /\ th[t].pc = "exec"
    /\ th[t].fn = "upsert_user"
    /\ th'[t].pc = "release"
    /\ th'[t].r.ok

Subjects(rows) == {row.sub : row \in rows}

ProfileFields == {"email", "name", "given_name", "family_name", "picture"}

\* The row carries the profile fields of the claims, null where they have none.
CarriesClaims(row, payload) ==
    \A f \in ProfileFields :
        row[f] = IF f \in DOMAIN payload THEN payload[f] ELSE None

\* C3: after any interleaving of upsert_user calls the users table holds
\* exactly one row per subject ever upserted; the row carries the profile
\* fields of the last committed upsert for the subject (null for a field the
\* claims lack), keeps the created timestamp of the first upsert and has only
\* its updated timestamp refreshed; nothing else changes the table.
C3_UpsertOneRowPerSubject ==
    /\ [](\A r1, r2 \in users : r1.sub = r2.sub => r1 = r2)
    /\ [][IF \E t \in Threads : CommitsUpsert(t)
          THEN \A t \in Threads : CommitsUpsert(t) =>
                 LET payload == th[t].a.payload IN
                 /\ Subjects(users') = Subjects(users) \cup {payload.sub}
                 /\ \A row \in users' : row.sub # payload.sub => row \in users
                 /\ \A row \in users' : row.sub = payload.sub =>
                      /\ CarriesClaims(row, payload)
                      /\ row.updated_at = now
                      /\ \A old \in users : old.sub = payload.sub => row.created_at = old.created_at
                      /\ payload.sub \notin Subjects(users) => row.created_at = now
          ELSE users' = users]_vars

\* Two callers upsert the same subject at once; its row was created by an
\* earlier upsert, now carries the later claims, and another subject has a row.
C3_Witness ==
    /\ \E row \in users :
         /\ row.sub = S1
         /\ row.email = E2
         /\ row.name = None
         /\ row.created_at < row.updated_at
    /\ S2 \in Subjects(users)
    /\ th[1].pc = "release" /\ th[1].fn = "upsert_user" /\ th[1].a.user.sub = S1
    /\ th[2].pc \in {"acquire", "exec"} /\ th[2].fn = "upsert_user" /\ th[2].a.user.sub = S1

\* The thread is inside "with ENGINE.begin()/connect()": a statement of its
\* store function is being executed.
Executing(t) == th[t].pc = "exec"

\* Inside the whole "with _locked()" block.
InLockedBlock(t) == th[t].pc \in {"exec", "release"}

Executors == {t \in Threads : Executing(t)} \cup (IF main = "init_db" THEN {0} ELSE {})

\* C4 as stated: every store access (init_db, upsert_user, insert_task,
\* fetch_tasks_by_email_and_date, deactivate_task) runs while holding the one
\* process-wide guard, so no two threads execute a store statement at once.
C4_AsStated ==
    /\ main = "init_db" => lock # 0
    /\ \A t \in Threads : Executing(t) => lock = t
    /\ Cardinality(Executors) <= 1

\* C4 (amended): on the SQLite backend, for which alone the guard exists,
\* upsert_user, insert_task, fetch_tasks_by_email_and_date and deactivate_task
\* execute their statements while holding the one process-wide guard; init_db
\* executes without it, but only at start-up while no request thread has
\* begun; so at no time do two threads execute a store statement at once.
C4_StoreAccessSerialized ==
    backend = "sqlite" =>
        /\ \A t \in Threads : InLockedBlock(t) => lock = t
        /\ main = "init_db" => \A t \in Threads : th[t].pc = "idle"
        /\ Cardinality(Executors) <= 1

\* One thread executes a statement under the guard while the other waits for it.
C4_Witness ==
    /\ backend = "sqlite"
    /\ Executing(1) /\ th[1].fn = "insert_task" /\ lock = 1
    /\ th[2].pc = "acquire" /\ th[2].fn = "upsert_user"
    /\ tasks # {}

IsPrefix(p, q) == Len(p) <= Len(q) /\ SubSeq(q, 1, Len(p)) = p

\* The steps of a request in the order the pipelines allow: each entry is
\* logged when the step is taken ("post", "validate", "userinfo", "upsert")
\* or has succeeded ("exchanged", "verified", "write").
PipelineOrders(req) ==
    IF req = "verify"
    THEN {<<"validate", "verified", "upsert", "write">>}
    ELSE {<<"post", "exchanged", "validate", "verified", "upsert", "write">>,
          <<"post", "exchanged", "validate", "verified", "userinfo", "upsert", "write">>}

\* C5: within one request the steps run strictly in order and each only
\* after the previous one succeeded: verify -> upsert, or exchange -> verify
\* -> optional userinfo -> upsert; a user row is written only by a request
\* whose token was verified, and a request whose exchange or verification
\* failed writes no row.
C5_PipelineInOrder ==
    /\ [](\A t \in Threads : th[t].req # "none" =>
            /\ \E order \in PipelineOrders(th[t].req) : IsPrefix(th[t].x.log, order)
            /\ (Answered(t) /\ ~th[t].r.ok
                  /\ th[t].r.val \in {"TokenExchangeError", "TokenVerificationError"})
               => ~Logged(t, "write"))
    /\ [][users' # users =>
            \E t \in Threads :
                /\ th[t].req # "none"
                /\ Logged(t, "verified")
                /\ th[t].x.log[Len(th[t].x.log)] = "upsert"
                /\ th'[t].x.log = Append(th[t].x.log, "write")]_vars

\* An exchange request that went through every step and was answered 200.
C5_Witness ==
    \E t \in Threads :
        /\ InRequest(t, "exchange")
        /\ th[t].pc = "responded"
        /\ th[t].x.status = 200
        /\ th[t].x.log = <<"post", "exchanged", "validate", "verified", "userinfo", "upsert", "write">>
        /\ users # {}

\* The statement of store function fn, called by t, completes in this step.
Completes(t, fn) ==
    /\ th[t].pc = "exec"
    /\ th[t].fn = fn
    /\ th'[t].pc = "release"
    /\ th'[t].r.ok

IsActive(rows, id) == \E row \in rows : row.id = id /\ row.isactive = 1

IsInactive(rows, id) == \E row \in rows : row.id = id /\ row.isactive = 0

\* C6: deactivate_task(id) returns true exactly when a row with that id
\* exists and is active when the statement runs, and then the row is
\* inactive; a row once inactive stays inactive, so every later
\* deactivate_task(id) returns false, and no listing contains an inactive
\* row; on an unknown or inactive id it returns false and changes nothing.
C6_DeactivateOnce ==
    /\ [][\A t \in Threads : Completes(t, "deactivate_task") =>
            LET id == th[t].a.task_id IN
            /\ th'[t].r.val = IsActive(tasks, id)
            /\ IsActive(tasks, id) => IsInactive(tasks', id) /\ ~IsActive(tasks', id)
            /\ ~IsActive(tasks, id) => tasks' = tasks]_vars
    /\ [][\A row \in tasks : row.isactive = 0 => row \in tasks']_vars
    /\ [][\A t \in Threads : Completes(t, "fetch_tasks") =>
            \A k \in DOMAIN th'[t].r.val : IsActive(tasks, th'[t].r.val[k].id)]_vars

\* A second deactivate_task of the same task has just returned false.
C6_Witness ==
    \E t \in Threads :
        /\ th[t].pc = "release"
        /\ th[t].fn = "deactivate_task"
        /\ th[t].r.ok
        /\ th[t].r.val = FALSE
        /\ IsInactive(tasks, th[t].a.task_id)

\* The time of day a stored "HH:MM" or "HH:MM:SS" text denotes, in seconds.
Seconds(time) ==
    LET d(k) == time[k] - 48 IN
    (10 * d(1) + d(2)) * 3600 + (10 * d(4) + d(5)) * 60
      + (IF Len(time) = 8 THEN 10 * d(7) + d(8) ELSE 0)

Listed(row) ==
    [id |-> row.id, description |-> row.description, date |-> row.date, time |-> row.time,
     user_email |-> row.user_email]

\* C7: for a non-blank email, fetch_tasks_by_email_and_date(email, date)
\* returns exactly the rows that are active, whose stored email equals the
\* trimmed argument and whose stored date equals the argument, ordered by
\* time ascending and, for equal times, by id ascending.
C7_ListExactAndOrdered ==
    [][\A t \in Threads : Completes(t, "fetch_tasks") =>
         LET res == th'[t].r.val
             email == Strip(th[t].a.args.user_email)
             want == {row \in tasks : /\ row.isactive = 1
                                      /\ row.user_email = email
                                      /\ row.date = th[t].a.args.task_date}
         IN /\ Len(res) = Cardinality(want)
            /\ \A row \in want : \E k \in DOMAIN res : res[k] = Listed(row)
            /\ \A i, j \in DOMAIN res : i < j =>
                 \/ Seconds(res[i].time) < Seconds(res[j].time)
                 \/ res[i].time = res[j].time /\ res[i].id < res[j].id]_vars

\* A listing of three tasks in which the time order differs from the id
\* order and two tasks have the same time.
C7_Witness ==
    \E t \in Threads :
        /\ th[t].pc = "release"
        /\ th[t].fn = "fetch_tasks"
        /\ th[t].r.ok
        /\ Len(th[t].r.val) = 3
        /\ th[t].r.val[1].id = 2
        /\ th[t].r.val[2].id = 1
        /\ th[t].r.val[3].id = 3
        /\ th[t].r.val[2].time = th[t].r.val[3].time

NonBlank(email) == email # None /\ Strip(email) # <<>>

\* C8: insert_task with a non-blank email returns an id >= 1 that no earlier
\* task has; from then until the task is deactivated a listing for its
\* (email, date) contains exactly one row with that id, carrying the inserted
\* description, date and time and the trimmed email; when the store has no
\* other task for that (email, date) the listing is exactly that task.
C8_InsertListRoundTrip ==
    /\ [][\A t \in Threads : Completes(t, "insert_task") =>
            LET id == th'[t].r.val[1] IN
            /\ id >= 1
            /\ id \notin {row.id : row \in tasks}
            /\ id \notin DOMAIN hist
            /\ id \in DOMAIN hist']_vars
    /\ [][\A t \in Threads : Completes(t, "fetch_tasks") =>
            \A id \in DOMAIN hist :
                LET was == hist[id].args
                    res == th'[t].r.val
                IN (/\ NonBlank(was.user_email)
                    /\ IsActive(tasks, id)
                    /\ Strip(th[t].a.args.user_email) = Strip(was.user_email)
                    /\ th[t].a.args.task_date = was.date)
                   => /\ Cardinality({k \in DOMAIN res : res[k].id = id}) = 1
                      /\ \A k \in DOMAIN res : res[k].id = id =>
                           res[k] = [id |-> id, description |-> was.description,
                                     date |-> was.date, time |-> was.time,
                                     user_email |-> Strip(was.user_email)]
                      /\ (\A row \in tasks :
                              (row.user_email = Strip(was.user_email) /\ row.date = was.date)
                              => row.id = id)
                         => Len(res) = 1]_vars

\* A task inserted with a padded email is the whole listing for its trimmed
\* email and date, in a store that holds other tasks.
C8_Witness ==
    \E t \in Threads :
        /\ th[t].pc = "release"
        /\ th[t].fn = "fetch_tasks"
        /\ th[t].r.ok
        /\ Len(th[t].r.val) = 1
        /\ th[t].r.val[1].id \in DOMAIN hist
        /\ hist[th[t].r.val[1].id].args.user_email = <<" ", "a", "\t">>
        /\ th[t].r.val[1].user_email = <<"a">>
        /\ Cardinality(tasks) = 3

\* C9: insert_task trims the owner email; an absent, empty or
\* whitespace-only email is normalized to absent, so the persisted row has a
\* null owner email and the returned email is absent; otherwise the trimmed
\* email is stored and returned.  The new row is active.
C9_BlankEmailStoredAsNull ==
    /\ [](\A id \in DOMAIN hist : \A row \in tasks : row.id = id =>
            LET email == hist[id].args.user_email IN
            IF NonBlank(email)
            THEN row.user_email = Strip(email) /\ hist[id].ret[2] = Strip(email)
            ELSE row.user_email = None /\ hist[id].ret[2] = None)
    /\ [][\A t \in Threads : Completes(t, "insert_task") =>
            IsActive(tasks', th'[t].r.val[1])]_vars

SameTask(r1, r2) ==
    /\ r1.id = r2.id
    /\ r1.description = r2.description
    /\ r1.date = r2.date
    /\ r1.time = r2.time
    /\ r1.user_email = r2.user_email

\* C10: deletion is soft.  No operation removes a task row or alters its
\* description, date, time or email: every id insert_task has returned
\* identifies exactly one row; deactivate_task(id) changes only the active
\* flag of the row with that id and leaves every other row as it was.
C10_SoftDelete ==
    /\ [](\A id \in DOMAIN hist : Cardinality({row \in tasks : row.id = id}) = 1)
    /\ [][\A row \in tasks : \E kept \in tasks' : SameTask(row, kept)]_vars
    /\ [][\A t \in Threads : Completes(t, "deactivate_task") =>
            /\ Cardinality(tasks') = Cardinality(tasks)
            /\ \A row \in tasks :
                 IF row.id = th[t].a.task_id
                 THEN [row EXCEPT !.isactive = 0] \in tasks'
                 ELSE row \in tasks']_vars

\* deactivate_task has just deactivated one of three stored tasks.
C10_Witness ==
    \E t \in Threads :
        /\ th[t].pc = "release"
        /\ th[t].fn = "deactivate_task"
        /\ th[t].r.ok
        /\ th[t].r.val = TRUE
        /\ th[t].a.task_id \in DOMAIN hist
        /\ IsInactive(tasks, th[t].a.task_id)
        /\ Cardinality(tasks) = 3

\* The token endpoint's answer is one of the failing outcomes: the network
\* failed, the status is not a success, the body is not JSON, or the JSON body
\* has no id_token field.
FailingTokenOutcome(resp) ==
    \/ ~resp.reachable
    \/ ~resp.status_ok
    \/ ~resp.is_json
    \/ "id_token" \notin DOMAIN resp.body

\* The exchange request of thread t got the answer resp from the token endpoint.
TokenEndpointAnswered(t) == InRequest(t, "exchange") /\ Logged(t, "post")

\* The request fails with TokenExchangeError and status 400, having verified
\* no token and written no user row.
FailsAsTokenExchangeError(t) ==
    /\ th[t].r = Raise("TokenExchangeError")
    /\ th[t].pc = "responded" => th[t].x.status = 400
    /\ ~Logged(t, "validate")
    /\ ~Logged(t, "write")

\* C11: for each failing outcome of the token-endpoint POST (network failure,
\* non-success status, non-JSON body, JSON body without an id_token field) the
\* exchange fails with TokenExchangeError and /auth/exchange answers 400
\* without verifying any token or writing any user row.
C11_TokenFailureAnswers400 ==
    \A t \in Threads :
        (/\ TokenEndpointAnswered(t)
         /\ FailingTokenOutcome(th[t].x.response)
         /\ Answered(t))
        => FailsAsTokenExchangeError(t)

\* C11 restricted to answers whose JSON body, if any, is an object: the part
\* of the claim that the code satisfies.
C11_ObjectBodiesAnswer400 ==
    \A t \in Threads :
        (/\ TokenEndpointAnswered(t)
         /\ FailingTokenOutcome(th[t].x.response)
         /\ th[t].x.response.body # JsonNull
         /\ Answered(t))
        => FailsAsTokenExchangeError(t)

\* A failing outcome with an object body (or none) has been answered with 400.
C11_ObjectBodiesWitness ==
    \E t \in Threads :
        /\ TokenEndpointAnswered(t)
        /\ th[t].x.response = Resp(TRUE, TRUE, TRUE, [access_token |-> AccessTok])
        /\ th[t].pc = "responded"
        /\ th[t].x.status = 400

\* The claims have no subject identifier, or an empty one.
SubjectMissing(payload) == Get(payload, "sub") \in {None, <<>>}

\* Thread t's request has called upsert_user with such claims.
UpsertWithoutSubject(t) ==
    /\ th[t].req \in {"verify", "exchange"}
    /\ th[t].fn = "upsert_user"
    /\ SubjectMissing(th[t].x.payload)

\* C12: upsert_user called with claims whose subject identifier is missing or
\* empty fails with ValueError (not DatabaseError) before any storage access
\* and leaves the users table unchanged; /auth/verify and /auth/exchange both
\* answer that failure with status 400.
C12_MissingSubjectRejected ==
    /\ [](\A t \in Threads :
            UpsertWithoutSubject(t) =>
                /\ th[t].pc \in {"handler", "responded"}
                /\ th[t].r = Raise("ValueError")
                /\ lock # t
                /\ ~Logged(t, "write")
                /\ th[t].pc = "responded" => th[t].x.status = 400)
    /\ [][\A t \in Threads :
            (/\ th[t].pc = "upsert_user"
             /\ SubjectMissing(th[t].x.payload)
             /\ th'[t] # th[t])
            => /\ th'[t].pc = "handler"
               /\ th'[t].r = Raise("ValueError")
               /\ users' = users
               /\ lock' = lock]_vars

\* An exchange whose verified ID token carries no subject has been answered
\* with 400 while the users table, which has a row, stayed as it was.
C12_Witness ==
    \E t \in Threads :
        /\ UpsertWithoutSubject(t)
        /\ InRequest(t, "exchange")
        /\ Logged(t, "verified")
        /\ th[t].pc = "responded"
        /\ th[t].x.status = 400
        /\ users # {}

\* The same on /auth/verify, with an empty subject.
C12_WitnessVerify ==
    \E t \in Threads :
        /\ UpsertWithoutSubject(t)
        /\ InRequest(t, "verify")
        /\ Get(th[t].x.payload, "sub") = <<>>
        /\ th[t].pc = "responded"
        /\ th[t].x.status = 400
        /\ users # {}

\* The subject of the ID token that thread t's exchange request verified.
VerifiedSubject(t) == Get(th[t].x.id_token[4], "sub")

\* Thread t's exchange request is inside upsert_user, past the test of the subject.
ExchangeUpserts(t) ==
    /\ InRequest(t, "exchange")
    /\ th[t].fn = "upsert_user"
    /\ th[t].pc \in {"acquire", "exec", "release"}

\* C13: in the exchange flow the user row that is written is keyed by the
\* subject of the verified ID token: whatever userinfo document is merged into
\* the claims, the subject passed to upsert_user is the token's, so a request
\* never creates or overwrites the row of another subject.
C13_RowKeyedByVerifiedSubject ==
    /\ [](\A t \in Threads :
            ExchangeUpserts(t) => th[t].a.user.sub = VerifiedSubject(t))
    /\ [][\A t \in Threads :
            (ExchangeUpserts(t) /\ th[t].pc = "exec" /\ th'[t].pc = "release")
            => \A row \in users' :
                   row.sub # VerifiedSubject(t) => row \in users]_vars

\* An exchange whose ID token was verified for subject s1 has written the row
\* of subject s2, named by the userinfo document.
C13_OtherSubjectWritten ==
    \E t \in Threads :
        /\ InRequest(t, "exchange")
        /\ Logged(t, "write")
        /\ VerifiedSubject(t) = S1
        /\ \E row \in users : row.sub = S2 /\ row.email = E3
        /\ ~\E row \in users : row.sub = S1

\* Thread t is blocked on, or about to enter, "with _locked()".
WaitsForGuard(t) == th[t].pc = "acquire"

\* Thread t is in none of the store functions' with-blocks.
OutsideLockedBlock(t) == th[t].pc \in {"idle", "acquire", "return"}

====
